---- MODULE Spec2Model ----
(***************************************************************************)
(* Model of the trajectory optimiser of rrc_package:                       *)
(*   traj_opt/static_object_system.py  (StaticObjectSystem)                *)
(*   traj_opt/static_object_opt.py     (StaticObjectOpt)                   *)
(*                                                                         *)
(* Numbers are scaled integers: joint angles in 1/100 rad, joint           *)
(* velocities in 1/100 rad/s, times in 1/10 s, lengths in mm, slack in     *)
(* mm^2.  Floating-point rounding is not modelled.                         *)
(* Symbolic casadi entries (SX.sym) are records [n, i, j]; a vector is a   *)
(* sequence, a matrix is a sequence of rows.  Indices of the code are      *)
(* 0-based, indices of sequences are 1-based.                              *)
(***************************************************************************)
EXTENDS Integers, Sequences, FiniteSets, TLC

\* ------------------------------------------------------------------ bounds
MaxGrid == 12          \* largest nGrid the configuration is drawn from
MaxSeed == 2           \* seeds of the family of numeric input vectors
MaxDt   == 2           \* largest dt (in 1/10 s) the configuration is drawn from

\* ------------------------------------------------------- program constants
fnum == 3
qnum == 3
ARENA_START == 10      \* range(10, self.nGrid) in arena_constraint
MAX_FT_R == 195        \* 0.195 m
GROUND_CLEARANCE == 10 \* 0.01 m
Inf == 1000000000      \* np.inf; every finite number of the model is smaller
W_SLACK == 150
CollisionLinks == {2, 3} \* for l_i in [2,3] in collision_constraint
collision_weight == 0  \* cost_func
CostLink == 3          \* for l_i in [3] in cost_func

dim == qnum * fnum

\* one_finger_q_range, 1/100 rad
one_finger_q_range == << <<-33, 100>>, <<0, 157>>, <<-270, 0>> >>
\* one_finger_dq_range, 1/100 rad/s
one_finger_dq_range == << <<-200, 200>>, <<-200, 200>>, <<-200, 200>> >>

None == <<>>           \* Python None for an optional row argument

\* outcome of a call that raises (casadi: RuntimeError on a size mismatch)
StructuralError == [error |-> "RuntimeError"]

\* container types of a numeric vector: numpy.ndarray and casadi.DM
Containers == {"ndarray", "DM"}

VARIABLES
  nGrid,       \* self.nGrid
  dt,          \* self.dt (1/10 s)
  z,           \* self.z, symbolic decision vector
  g, lbg, ubg, \* self.g, self.lbg, self.ubg
  cost,        \* self.cost
  p,           \* self.p, symbolic parameter vector
  z0,          \* self.z0
  z_lb, z_ub,  \* self.z_lb, self.z_ub
  solver,      \* self.solver: the problem {x, f, g, p} given to nlpsol
  status,      \* return status held by the solver object (solver.stats())
  solved,      \* TRUE once solve_nlp has set the *_soln attributes
  z_soln,      \* r["x"] of the last solve
  t_soln, s_soln, a_soln, q_soln, dq_soln, ft_pos_soln, ft_vel_soln,
  req,         \* inputs and return value of the last solve_nlp call
  ret,         \* arguments and result of the last direct call of a method
  env_class,   \* class of the environment object stepped
  platform,    \* self.platform of the environment
  frameskip,   \* self.frameskip
  step_count,  \* self.step_count
  episode_length \* move_cube.episode_length

vars == <<nGrid, dt, z, g, lbg, ubg, cost, p, solver, z0, z_lb, z_ub, status,
          solved,
          z_soln, t_soln, s_soln, a_soln, q_soln, dq_soln, ft_pos_soln, ft_vel_soln,
          req, ret, env_class, platform, frameskip, step_count,
          episode_length>>

\* the attributes of the environment
env_vars == <<env_class, platform, frameskip, step_count, episode_length>>

\* step_count before reset(): the attribute is not set
Unset == 0 - 1

\* no environment object is constructed
NoEnv ==
  /\ env_class = "none"
  /\ platform = "None"
  /\ frameskip = 0
  /\ step_count = Unset
  /\ episode_length = 0

\* --------------------------------------------------------- array helpers
Min(a, b) == IF a < b THEN a ELSE b
Max(a, b) == IF a > b THEN a ELSE b

\* F applied to the value of x, with x evaluated once
Bind(x, F(_)) == CHOOSE r \in {F(y) : y \in {x}} : TRUE

\* a function over 1..n as a sequence value (the identity on sequences)
AsSeq(f) == f \o <<>>

NRows(M) == Len(M)
NCols(M) == IF Len(M) = 0 THEN 0 ELSE Len(M[1])

\* M.T
Transpose(M) ==
  Bind(M, LAMBDA m :
    AsSeq([j \in 1..NCols(m) |-> AsSeq([i \in 1..NRows(m) |-> m[i][j]])]))

\* casadi reshape(M, numel, 1): column-major flattening of a matrix
ColMajor(M) ==
  Bind(M, LAMBDA m :
    AsSeq([k \in 1..(NRows(m) * NCols(m)) |->
             m[((k - 1) % NRows(m)) + 1][((k - 1) \div NRows(m)) + 1]]))

\* casadi reshape(v, r, c) of a column vector: column-major filling
ReshapeVec(v, r, c) ==
  Bind(v, LAMBDA w :
    AsSeq([i \in 1..r |-> AsSeq([j \in 1..c |-> w[(j - 1) * r + i]])]))

\* Python slice v[lo:hi] (indices clamp to the length)
Slice(v, lo, hi) ==
  Bind(v, LAMBDA w : SubSeq(w, Min(lo, Len(w)) + 1, Min(hi, Len(w))))

\* vertcat of three column vectors
Vertcat3(a, b, c) == a \o b \o c

\* np.tile(row, (n, 1))
TileRows(row, n) == Bind(row, LAMBDA r : AsSeq([i \in 1..n |-> r]))

\* np.tile(one_finger_range, (fnum, 1)): joint j (0-based) of the hand
TileRange(range) == AsSeq([j \in 1..dim |-> range[((j - 1) % qnum) + 1]])

\* np.linspace(start, stop, num)[i] for num >= 2; the last entry is stop
Linspace(start, stop, num) ==
  AsSeq([i \in 1..num |->
           IF i = num THEN stop
           ELSE start + (((i - 1) * (stop - start)) \div (num - 1))])

\* np.zeros(n), np.ones(n) * v
Fill(n, v) == AsSeq([k \in 1..n |-> v])

RECURSIVE SumSeq(_)
SumSeq(s) == IF Len(s) = 0 THEN 0 ELSE s[1] + SumSeq(Tail(s))

\* ------------------------------------------------ decision variable codec
Sym(n, i, j) == [n |-> n, i |-> i, j |-> j]

\* decvar_pack
decvar_pack(t, s, a) == Vertcat3(t, s, a)

\* decvar_unpack with the state block taken as one nGrid*fnum*qnum block
decvar_unpack_short_state(zz) ==
  Bind(zz, LAMBDA w :
    LET s_start_ind == nGrid
        s_end_ind   == s_start_ind + nGrid * fnum * qnum
    IN  [t |-> Slice(w, 0, nGrid),
         s |-> Slice(w, s_start_ind, s_end_ind),
         a |-> Slice(w, s_end_ind, Len(w))])

\* decvar_unpack
decvar_unpack(zz) ==
  Bind(zz, LAMBDA w :
    LET s_start_ind == nGrid
        s_end_ind   == s_start_ind + 2 * nGrid * fnum * qnum
    IN  [t |-> Slice(w, 0, nGrid),
         s |-> Slice(w, s_start_ind, s_end_ind),
         a |-> Slice(w, s_end_ind, Len(w))])

\* decvar_unpack of a casadi vector: a casadi slice whose stop lies beyond
\* the length raises, a slice to the end (z[a_start_ind:]) takes what is left
decvar_unpack_casadi(zz) ==
  Bind(zz, LAMBDA w :
    IF Len(w) < nGrid + 2 * nGrid * fnum * qnum THEN StructuralError
    ELSE decvar_unpack(w))

\* s_pack flattening q and dq directly, without the transposition
s_pack_no_transpose(q, dq) == ColMajor(q) \o ColMajor(dq)

\* s_pack
s_pack(q, dq) == ColMajor(Transpose(q)) \o ColMajor(Transpose(dq))

\* s_unpack reshaping to nGrid x dim directly, without the transposition
s_unpack_no_transpose(s) ==
  Bind(s, LAMBDA w :
    LET q_flat  == Slice(w, 0, nGrid * dim)
        dq_flat == Slice(w, nGrid * dim, Len(w))
    IN  [q  |-> ReshapeVec(q_flat, nGrid, dim),
         dq |-> ReshapeVec(dq_flat, nGrid, dim)])

\* s_unpack; casadi reshape raises unless the number of entries stays the
\* same
s_unpack(s) ==
  Bind(s, LAMBDA w :
    LET q_flat  == Slice(w, 0, nGrid * dim)
        dq_flat == Slice(w, nGrid * dim, Len(w))
    IN  IF Len(w) # 2 * nGrid * dim THEN StructuralError
        ELSE [q  |-> Transpose(ReshapeVec(q_flat, dim, nGrid)),
              dq |-> Transpose(ReshapeVec(dq_flat, dim, nGrid))])

\* dec_vars
dec_vars ==
  LET t  == AsSeq([i \in 1..nGrid |-> Sym("t", i - 1, 0)])
      q  == AsSeq([i \in 1..nGrid |->
                     AsSeq([j \in 1..dim |-> Sym("q", i - 1, j - 1)])])
      dq == AsSeq([i \in 1..nGrid |->
                     AsSeq([j \in 1..dim |-> Sym("dq", i - 1, j - 1)])])
      a  == AsSeq([k \in 1..(3 * fnum) |-> Sym("a", k - 1, 0)])
  IN  [t |-> t, s_flat |-> s_pack(q, dq), a |-> a]

\* ------------------------------------------------------------ kinematics
\* FK: one fingertip position (3 x 1) per finger, each coordinate a closed
\* form in the three joint angles q_cur[0, qnum*i .. qnum*i + 2] of finger i.
\* The trigonometric value is not computed: a coordinate is the application
\* of the finger's closed form to its three arguments.
FK(q_cur) ==
  Bind(q_cur, LAMBDA qc :
    AsSeq([f \in 1..fnum |->
       AsSeq([d \in 1..3 |->
          [op |-> "FK", finger |-> f - 1, axis |-> d - 1,
           q1 |-> qc[qnum * (f - 1) + 1],
           q2 |-> qc[qnum * (f - 1) + 2],
           q3 |-> qc[qnum * (f - 1) + 3]]])]))

\* ------------------------------------------------- closed-form kinematics
\* The closed forms of FK and get_jacobian are polynomials in the sines and
\* cosines of the joint angles and of the base angle of the finger, with
\* decimal coefficients.  A polynomial is a set of <<monomial, coefficient>>
\* with integer coefficients, no zero coefficient and one entry per
\* monomial; a monomial is the sequence of the exponents of
\*   sin(q_j), cos(q_j)            for joint j = 0..8   (2j+1, 2j+2),
\*   sin(theta_i), cos(theta_i)    for finger i = 0..2  (19+2i, 20+2i),
\*   u = 1/100000, the unit of the decimal coefficients (25).
NVars == 2 * fnum * qnum + 2 * fnum + 1
UnitVar == NVars

MonoVar(v) == AsSeq([k \in 1..NVars |-> IF k = v THEN 1 ELSE 0])
MonoMul(a, b) == AsSeq([k \in 1..NVars |-> a[k] + b[k]])

PZero == {}
PVar(v) == {<<MonoVar(v), 1>>}
\* the decimal c/100000
K(c) == {<<MonoVar(UnitVar), c>>}

Coef(P, m) == IF \E t \in P : t[1] = m
              THEN (CHOOSE t \in P : t[1] = m)[2] ELSE 0

PAdd(P, Q) ==
  {t \in {<<m, Coef(P, m) + Coef(Q, m)>> : m \in {s[1] : s \in P \cup Q}} :
     t[2] # 0}

PNeg(P) == {<<t[1], -t[2]>> : t \in P}

RECURSIVE SumCoef(_)
SumCoef(pairs) ==
  IF pairs = {} THEN 0
  ELSE LET pr == CHOOSE x \in pairs : TRUE
       IN  pr[1][2] * pr[2][2] + SumCoef(pairs \ {pr})

PMul(P, Q) ==
  LET pairs == P \X Q
      ms    == {MonoMul(pr[1][1], pr[2][1]) : pr \in pairs}
  IN  {t \in {<<m, SumCoef({pr \in pairs :
                              MonoMul(pr[1][1], pr[2][1]) = m})>> : m \in ms} :
         t[2] # 0}

RECURSIVE PSum(_)
PSum(ps) == IF Len(ps) = 0 THEN PZero ELSE PAdd(ps[1], PSum(Tail(ps)))

RECURSIVE PProd(_)
PProd(ps) == IF Len(ps) = 1 THEN ps[1] ELSE PMul(ps[1], PProd(Tail(ps)))

\* sin and cos of joint j (0-based, of the hand) and of the base of finger i
SinQ(j) == PVar(2 * j + 1)
CosQ(j) == PVar(2 * j + 2)
SinBase(i) == PVar(2 * fnum * qnum + 2 * i + 1)
CosBase(i) == PVar(2 * fnum * qnum + 2 * i + 2)

\* the closed form of the fingertip position of finger i in FK, rows x, y, z
one_finger_ft_wf(i) ==
  LET s1 == SinQ(qnum * i)      c1 == CosQ(qnum * i)
      s2 == SinQ(qnum * i + 1)  c2 == CosQ(qnum * i + 1)
      s3 == SinQ(qnum * i + 2)  c3 == CosQ(qnum * i + 2)
      sB == SinBase(i)          cB == CosBase(i)
  IN  << PSum(<<PProd(<<K(16260), PSum(<<PProd(<<s1, s2, cB>>), PNeg(PProd(<<sB,
       c2>>))>>), s3>>), PNeg(PProd(<<K(16260), PSum(<<PProd(<<s1, c2, cB>>),
       PProd(<<s2, sB>>)>>), c3>>)), PNeg(PProd(<<K(16000), s1, c2, cB>>)),
       PNeg(PProd(<<K(16000), s2, sB>>)), PNeg(PProd(<<K(5050), sB>>)),
       PProd(<<K(8457), c1, cB>>)>>),
       PSum(<<PProd(<<K(16260), PSum(<<PProd(<<s1, s2, sB>>), PProd(<<c2,
       cB>>)>>), s3>>), PNeg(PProd(<<K(16260), PSum(<<PProd(<<s1, sB, c2>>),
       PNeg(PProd(<<s2, cB>>))>>), c3>>)), PNeg(PProd(<<K(16000), s1, sB,
       c2>>)), PProd(<<K(16000), s2, cB>>), PProd(<<K(8457), sB, c1>>),
       PProd(<<K(5050), cB>>)>>),
       PSum(<<PProd(<<PNeg(K(8457)), s1>>), PProd(<<K(16260), s2, s3, c1>>),
       PNeg(PProd(<<K(16260), c1, c2, c3>>)), PNeg(PProd(<<K(16000), c1,
       c2>>)), K(29000)>>) >>

\* the closed form of the 3 x 3 Jacobian of finger i in get_jacobian
one_finger_J(i) ==
  LET s1 == SinQ(qnum * i)      c1 == CosQ(qnum * i)
      s2 == SinQ(qnum * i + 1)  c2 == CosQ(qnum * i + 1)
      s3 == SinQ(qnum * i + 2)  c3 == CosQ(qnum * i + 2)
      sB == SinBase(i)          cB == CosBase(i)
  IN  << << PSum(<<PProd(<<PNeg(K(8457)), s1, cB>>), PProd(<<K(16260), s2, s3,
          c1, cB>>), PNeg(PProd(<<K(16260), c1, c2, c3, cB>>)),
          PNeg(PProd(<<K(16000), c1, c2, cB>>))>>),
          PSum(<<PProd(<<PSum(<<PProd(<<K(16260), s1, s2, cB>>),
          PNeg(PProd(<<K(16260), sB, c2>>))>>), c3>>),
          PProd(<<PSum(<<PProd(<<K(16260), s1, c2, cB>>), PProd(<<K(16260),
          s2, sB>>)>>), s3>>), PProd(<<K(16000), s1, s2, cB>>),
          PNeg(PProd(<<K(16000), sB, c2>>))>>),
          PSum(<<PProd(<<PSum(<<PProd(<<K(16260), s1, s2, cB>>),
          PNeg(PProd(<<K(16260), sB, c2>>))>>), c3>>),
          PNeg(PProd(<<PSum(<<PProd(<<PNeg(K(16260)), s1, c2, cB>>),
          PNeg(PProd(<<K(16260), s2, sB>>))>>), s3>>))>>) >>,
       << PSum(<<PProd(<<PNeg(K(8457)), s1, sB>>), PProd(<<K(16260), s2, s3,
          sB, c1>>), PNeg(PProd(<<K(16260), sB, c1, c2, c3>>)),
          PNeg(PProd(<<K(16000), sB, c1, c2>>))>>),
          PSum(<<PProd(<<PSum(<<PProd(<<K(16260), s1, s2, sB>>),
          PProd(<<K(16260), c2, cB>>)>>), c3>>),
          PProd(<<PSum(<<PProd(<<K(16260), s1, sB, c2>>),
          PNeg(PProd(<<K(16260), s2, cB>>))>>), s3>>), PProd(<<K(16000), s1,
          s2, sB>>), PProd(<<K(16000), c2, cB>>)>>),
          PSum(<<PProd(<<PSum(<<PProd(<<K(16260), s1, s2, sB>>),
          PProd(<<K(16260), c2, cB>>)>>), c3>>),
          PNeg(PProd(<<PSum(<<PProd(<<PNeg(K(16260)), s1, sB, c2>>),
          PProd(<<K(16260), s2, cB>>)>>), s3>>))>>) >>,
       << PSum(<<PProd(<<PNeg(K(16260)), s1, s2, s3>>), PProd(<<K(16260), s1,
          c2, c3>>), PProd(<<K(16000), s1, c2>>), PNeg(PProd(<<K(8457),
          c1>>))>>),
          PSum(<<PProd(<<K(16260), s2, c1, c3>>), PProd(<<K(16000), s2, c1>>),
          PProd(<<K(16260), s3, c1, c2>>)>>),
          PSum(<<PProd(<<K(16260), s2, c1, c3>>), PProd(<<K(16260), s3, c1,
          c2>>)>>) >> >>

\* row r of the stacked fingertip positions [f1 xyz, f2 xyz, f3 xyz] of FK
FK_wf(r) == one_finger_ft_wf(r \div 3)[(r % 3) + 1]

\* get_jacobian with the block of every finger transposed
get_jacobian_transposed(r, c) ==
  IF r \div 3 = c \div qnum
  THEN one_finger_J(r \div 3)[(c % qnum) + 1][(r % 3) + 1]
  ELSE PZero

\* get_jacobian: entry (r, c) of J = zeros(9, 9) with
\* J[3*i:3*i+3, qnum*i:qnum*i+qnum] = one_finger_J for every finger i
get_jacobian(r, c) ==
  IF r \div 3 = c \div qnum
  THEN one_finger_J(r \div 3)[(r % 3) + 1][(c % qnum) + 1]
  ELSE PZero

\* ----------------------------------------------------------- constraints
\* ft_goal_constraint reading the first row q[0, :] instead of q[-1, :]
ft_goal_constraint_first_row(s_flat, a) ==
  Bind(<<s_unpack(s_flat).q, a>>, LAMBDA b :
    Bind(FK(b[1][1]), LAMBDA ft_end :
      AsSeq([k \in 1..(fnum * 3) |->
         LET f_i == (k - 1) \div 3
             d_i == (k - 1) % 3
         IN  [op |-> "goal", slack |-> b[2][f_i * 3 + d_i + 1],
              goal |-> f_i * 3 + d_i, ft |-> ft_end[f_i + 1][d_i + 1]]])))

\* ft_goal_constraint: a[f*3+d] - (ft_goal_param[f*3+d] - ft_end[f][d])**2
ft_goal_constraint(s_flat, a) ==
  Bind(<<s_unpack(s_flat).q, a>>, LAMBDA b :
    Bind(FK(b[1][Len(b[1])]), LAMBDA ft_end :
      AsSeq([k \in 1..(fnum * 3) |->
         LET f_i == (k - 1) \div 3
             d_i == (k - 1) % 3
         IN  [op |-> "goal", slack |-> b[2][f_i * 3 + d_i + 1],
              goal |-> f_i * 3 + d_i, ft |-> ft_end[f_i + 1][d_i + 1]]])))

\* arena_constraint over every grid index, range(0, nGrid)
arena_constraint_all_rows(s_flat) ==
  Bind(s_unpack(s_flat).q, LAMBDA q :
    AsSeq([k \in 1..(nGrid * fnum * 2) |->
       LET t_i == (k - 1) \div (fnum * 2)
           f_i == ((k - 1) % (fnum * 2)) \div 2
       IN  Bind(FK(q[t_i + 1]), LAMBDA ft :
             IF (k - 1) % 2 = 0
             THEN [op |-> "arena_r", max_r |-> MAX_FT_R,
                   x |-> ft[f_i + 1][1], y |-> ft[f_i + 1][2]]
             ELSE [op |-> "arena_z", zc |-> ft[f_i + 1][3],
                   clearance |-> GROUND_CLEARANCE])]))

\* arena_constraint: for t_i in range(10, nGrid), per finger
\*   MAX_FT_R - norm_2(ft[0:2])   and   ft[2] - 0.01
arena_constraint(s_flat) ==
  Bind(s_unpack(s_flat).q, LAMBDA q :
    LET cnt == IF nGrid > ARENA_START THEN nGrid - ARENA_START ELSE 0
    IN  AsSeq([k \in 1..(cnt * fnum * 2) |->
           LET t_i == ARENA_START + ((k - 1) \div (fnum * 2))
               f_i == ((k - 1) % (fnum * 2)) \div 2
           IN  Bind(FK(q[t_i + 1]), LAMBDA ft :
                 IF (k - 1) % 2 = 0
                 THEN [op |-> "arena_r", max_r |-> MAX_FT_R,
                       x |-> ft[f_i + 1][1], y |-> ft[f_i + 1][2]]
                 ELSE [op |-> "arena_z", zc |-> ft[f_i + 1][3],
                       clearance |-> GROUND_CLEARANCE])]))

\* the trapezoidal defects with dq[i,j] taken twice instead of dq[i+1,j]
collocation_same_row(t, s) ==
  Bind(<<t, s_unpack(s)>>, LAMBDA b :
    AsSeq([k \in 1..((Len(b[1]) - 1) * fnum * qnum) |->
       LET i == (k - 1) \div (fnum * qnum)
           j == (k - 1) % (fnum * qnum)
       IN  [op |-> "colloc",
            tHi |-> b[1][i + 2], tLo |-> b[1][i + 1],
            dqHi |-> b[2].dq[i + 1][j + 1], dqLo |-> b[2].dq[i + 1][j + 1],
            qLo |-> b[2].q[i + 1][j + 1], qHi |-> b[2].q[i + 2][j + 1]]]))

\* the trapezoidal defects of get_constraints:
\*   0.5 * (t[i+1] - t[i]) * (dq[i+1,j] + dq[i,j]) + q[i,j] - q[i+1,j]
collocation(t, s) ==
  Bind(<<t, s_unpack(s)>>, LAMBDA b :
    AsSeq([k \in 1..((Len(b[1]) - 1) * fnum * qnum) |->
       LET i == (k - 1) \div (fnum * qnum)
           j == (k - 1) % (fnum * qnum)
       IN  [op |-> "colloc",
            tHi |-> b[1][i + 2], tLo |-> b[1][i + 1],
            dqHi |-> b[2].dq[i + 2][j + 1], dqLo |-> b[2].dq[i + 1][j + 1],
            qLo |-> b[2].q[i + 1][j + 1], qHi |-> b[2].q[i + 2][j + 1]]]))

\* get_constraints with the upper bound of the goal constraints not appended
get_constraints_goal_ubg_missing(t, s, a) ==
  Bind(<<collocation(t, s), ft_goal_constraint(s, a), arena_constraint(s)>>,
       LAMBDA b :
    [g   |-> b[1] \o b[2] \o b[3],
     lbg |-> Fill(Len(b[1]), 0) \o Fill(Len(b[2]), 0) \o Fill(Len(b[3]), 0),
     ubg |-> Fill(Len(b[1]), 0) \o Fill(Len(b[3]), Inf)])

\* get_constraints: (g, lbg, ubg)
get_constraints(t, s, a) ==
  Bind(<<collocation(t, s), ft_goal_constraint(s, a), arena_constraint(s)>>,
       LAMBDA b :
    [g   |-> b[1] \o b[2] \o b[3],
     lbg |-> Fill(Len(b[1]), 0) \o Fill(Len(b[2]), 0) \o Fill(Len(b[3]), 0),
     ubg |-> Fill(Len(b[1]), 0) \o Fill(Len(b[2]), Inf)
             \o Fill(Len(b[3]), Inf)])

\* ------------------------------------------------------------------ cost
\* the additive terms of the symbolic objective of cost_func for a collision
\* weight w.  The collision term of grid index t_i and finger f_i is
\* w * penalty summed over the spheres of link 3; it reads the joint angles
\* of the finger and, through get_pnorm_of_pos_wf, the object pose
\* parameters.  A product with the constant 0 is the constant 0 in SX and
\* leaves no term.
cost_terms(t, s_flat, a, w) ==
  Bind(<<t, s_unpack(s_flat), a>>, LAMBDA b :
    LET slackT == AsSeq([i \in 1..Len(b[3]) |->
                     [op |-> "slack", w |-> W_SLACK, a |-> b[3][i]]])
        trackT == AsSeq([k \in 1..(Len(b[1]) * fnum) |->
                     LET i   == (k - 1) \div fnum
                         f_i == (k - 1) % fnum
                     IN  [op |-> "track", goal |-> 3 * f_i,
                          ft |-> FK(b[2].q[i + 1])[f_i + 1]]])
        velT   == AsSeq([i \in 1..Len(b[1]) |->
                     [op |-> "vel", dq |-> b[2].dq[i]]])
        collT  == IF w = 0 THEN <<>>
                  ELSE AsSeq([k \in 1..(Len(b[1]) * fnum) |->
                     LET t_i == (k - 1) \div fnum
                         f_i == (k - 1) % fnum
                     IN  [op |-> "collision", w |-> w, l_i |-> CostLink,
                          q |-> SubSeq(b[2].q[t_i + 1], qnum * f_i + 1,
                                       qnum * f_i + qnum),
                          pose |-> AsSeq([o \in 1..7 |->
                                            Sym("o", o - 1, 0)])]])
    IN  [kind |-> "SX", terms |-> slackT \o trackT \o velT \o collT])

\* cost_func with collision_weight = 0.03
cost_func_collision_weighted(t, s_flat, a) == cost_terms(t, s_flat, a, 3)

\* cost_func: collision_weight = 0
cost_func(t, s_flat, a) == cost_terms(t, s_flat, a, collision_weight)

\* --------------------------------------------- bounds and initial guess
\* time bounds of path_constraints: t_lb = t_ub = linspace(0, tf, nGrid)
t_bounds ==
  LET tf == dt * (nGrid - 1)
  IN  [lb |-> Linspace(0, tf, nGrid), ub |-> Linspace(0, tf, nGrid)]

\* joint-position bounds with only the lower bound of row 0 set to q0
q_bounds_lower_only(rows, q0) ==
  Bind(TileRange(one_finger_q_range), LAMBDA q_range :
    [lb |-> AsSeq([i \in 1..rows |->
                     IF i = 1 THEN q0
                     ELSE AsSeq([j \in 1..dim |-> q_range[j][1]])]),
     ub |-> AsSeq([i \in 1..rows |->
                     AsSeq([j \in 1..dim |-> q_range[j][2]])])])

\* joint-position bounds of path_constraints: the tiled joint ranges, row 0
\* set to q0
q_bounds(rows, q0) ==
  Bind(TileRange(one_finger_q_range), LAMBDA q_range :
    [lb |-> AsSeq([i \in 1..rows |->
                     IF i = 1 THEN q0
                     ELSE AsSeq([j \in 1..dim |-> q_range[j][1]])]),
     ub |-> AsSeq([i \in 1..rows |->
                     IF i = 1 THEN q0
                     ELSE AsSeq([j \in 1..dim |-> q_range[j][2]])])])

\* joint-velocity bounds that never pin a row: dq0 and dq_end are ignored
dq_bounds_range_only(rows, dq0, dq_end) ==
  Bind(TileRange(one_finger_dq_range), LAMBDA dq_range :
    [lb |-> AsSeq([i \in 1..rows |->
                     AsSeq([j \in 1..dim |-> dq_range[j][1]])]),
     ub |-> AsSeq([i \in 1..rows |->
                     AsSeq([j \in 1..dim |-> dq_range[j][2]])])])

\* joint-velocity bounds with dq_end written to row 0 instead of row -1
dq_bounds_end_at_first(rows, dq0, dq_end) ==
  Bind(TileRange(one_finger_dq_range), LAMBDA dq_range :
    [lb |-> AsSeq([i \in 1..rows |->
                     IF i = 1 /\ dq_end # None THEN dq_end
                     ELSE IF i = 1 /\ dq0 # None THEN dq0
                     ELSE AsSeq([j \in 1..dim |-> dq_range[j][1]])]),
     ub |-> AsSeq([i \in 1..rows |->
                     IF i = 1 /\ dq_end # None THEN dq_end
                     ELSE IF i = 1 /\ dq0 # None THEN dq0
                     ELSE AsSeq([j \in 1..dim |-> dq_range[j][2]])])])

\* joint-velocity bounds of path_constraints: the tiled velocity ranges, row
\* 0 set to dq0 and row -1 set to dq_end when they are not None
dq_bounds(rows, dq0, dq_end) ==
  Bind(TileRange(one_finger_dq_range), LAMBDA dq_range :
    [lb |-> AsSeq([i \in 1..rows |->
                     IF i = rows /\ dq_end # None THEN dq_end
                     ELSE IF i = 1 /\ dq0 # None THEN dq0
                     ELSE AsSeq([j \in 1..dim |-> dq_range[j][1]])]),
     ub |-> AsSeq([i \in 1..rows |->
                     IF i = rows /\ dq_end # None THEN dq_end
                     ELSE IF i = 1 /\ dq0 # None THEN dq0
                     ELSE AsSeq([j \in 1..dim |-> dq_range[j][2]])])])

\* slack bounds with the slack pinned to zero
a_bounds_zero(n) == [lb |-> Fill(n, 0), ub |-> Fill(n, 0)]

\* slack bounds of path_constraints: a_lb = zeros, a_ub = ones * inf
a_bounds(n) == [lb |-> Fill(n, 0), ub |-> Fill(n, Inf)]

\* path_constraints(z, q0, dq0, dq_end) -> (z_lb, z_ub)
path_constraints(zz, q0, dq0, dq_end) ==
  Bind(decvar_unpack(zz), LAMBDA u :
   Bind(s_unpack(u.s), LAMBDA su :
    Bind(<<t_bounds, q_bounds(NRows(su.q), q0),
           dq_bounds(NRows(su.dq), dq0, dq_end), a_bounds(Len(u.a))>>,
         LAMBDA b :
      [lb |-> decvar_pack(b[1].lb, s_pack(b[2].lb, b[3].lb), b[4].lb),
       ub |-> decvar_pack(b[1].ub, s_pack(b[2].ub, b[3].ub), b[4].ub)])))

\* get_initial_guess with joint velocities of 1 rad/s instead of zero
get_initial_guess_unit_dq(z_var, q0) ==
  Bind(decvar_unpack(z_var), LAMBDA u :
   Bind(s_unpack(u.s), LAMBDA su :
    LET tf      == dt * (nGrid - 1)
        t_traj  == Linspace(0, tf, nGrid)
        q_traj  == TileRows(q0, nGrid)
        dq_traj == [i \in 1..NRows(su.dq) |-> Fill(NCols(su.dq), 100)]
        a_traj  == Fill(Len(u.a), 0)
    IN  decvar_pack(t_traj, s_pack(q_traj, dq_traj), a_traj)))

\* get_initial_guess with q0 written to the first row of q_traj only
get_initial_guess_first_row(z_var, q0) ==
  Bind(decvar_unpack(z_var), LAMBDA u :
   Bind(s_unpack(u.s), LAMBDA su :
    LET tf      == dt * (nGrid - 1)
        t_traj  == Linspace(0, tf, nGrid)
        q_traj  == [i \in 1..nGrid |-> IF i = 1 THEN q0 ELSE Fill(Len(q0), 0)]
        dq_traj == [i \in 1..NRows(su.dq) |-> Fill(NCols(su.dq), 0)]
        a_traj  == Fill(Len(u.a), 0)
    IN  decvar_pack(t_traj, s_pack(q_traj, dq_traj), a_traj)))

\* get_initial_guess(z_var, q0) -> z_traj
get_initial_guess(z_var, q0) ==
  Bind(decvar_unpack(z_var), LAMBDA u :
   Bind(s_unpack(u.s), LAMBDA su :
    LET tf      == dt * (nGrid - 1)
        t_traj  == Linspace(0, tf, nGrid)
        q_traj  == TileRows(q0, nGrid)
        dq_traj == [i \in 1..NRows(su.dq) |-> Fill(NCols(su.dq), 0)]
        a_traj  == Fill(Len(u.a), 0)
    IN  decvar_pack(t_traj, s_pack(q_traj, dq_traj), a_traj)))

\* --------------------------------------------------- numeric evaluation
\* offset (1-based) of a symbol in the decision vector self.z
PosOf(sym) == CHOOSE k \in 1..Len(z) : z[k] = sym

\* value of a symbol at the numeric decision vector zv
ValOf(sym, zv) == zv[PosOf(sym)]

\* 20 times the value of a collocation expression at zv (times in 1/10 s):
\*   20 * (0.5 * (tHi - tLo)/10 * (dqHi + dqLo) + qLo - qHi)
Defect20(c, zv) ==
  (ValOf(c.tHi, zv) - ValOf(c.tLo, zv)) * (ValOf(c.dqHi, zv) + ValOf(c.dqLo, zv))
  + 20 * ValOf(c.qLo, zv) - 20 * ValOf(c.qHi, zv)

\* value of a terminal goal expression at zv, for fingertip goals ft_goal
\* and the value ftv of the fingertip coordinate c.ft
GoalVal(c, zv, ft_goal, ftv) ==
  ValOf(c.slack, zv) - (ft_goal[c.goal + 1] - ftv) * (ft_goal[c.goal + 1] - ftv)

\* ---------------------------------------------------------------- inputs
\* grid sizes: the smallest ones and the ones around the first grid index
\* of the arena constraints
GridSizes == {2, 3} \cup (ARENA_START..MaxGrid)
DtSet     == {1, MaxDt}
Seeds     == 0..MaxSeed

\* differences between the length of an argument and the expected length
LenDeltas == {-1, 0, 1}

Q0Set == { <<0, 90, -100, 0, 90, -170, 0, 90, -170>>,
           <<50, 90, -170, 50, 90, -170, 50, 90, -170>>,
           <<-50, 200, 10, 0, 0, 0, 100, 157, -270>> }

GoalSet == { <<-32, 0, 0, -28, -82, 80, -57, 65, 80>>,
             <<900, 900, 900, -900, 0, 900, 0, -900, -900>> }

PoseSet == { [position |-> <<0, 0, 0>>, orientation |-> <<0, 0, 0, 1>>],
             [position |-> <<0, 20, 35>>, orientation |-> <<0, 0, 1, 0>>] }

DqRowSet == { None,
              <<0, 0, 0, 0, 0, 0, 0, 0, 0>>,
              <<10, -20, 30, 0, 200, -200, 5, 6, 7>> }

\* a family of numeric entries, one vector per seed
Gen(seed, k) == (seed * (k + 3) + (k * k) + (k \div 9)) % 7

GenVec(seed, n) == AsSeq([k \in 1..n |-> 10 * Gen(seed, k) - 30 + seed])

GenMat(seed, r, c) ==
  AsSeq([i \in 1..r |->
     AsSeq([j \in 1..c |-> 10 * Gen(seed, (i - 1) * c + j) - 30 + seed])])

\* ---------------------------------------------------------------- solver
Statuses == {"Solve_Succeeded", "Infeasible_Problem_Detected",
             "Maximum_Iterations_Exceeded"}

\* the point r["x"] the interior-point solver ends at: inside [lbx, ubx];
\* seed 0 is the starting point x0 projected into the bounds
SolverPoint(seed, x0, lbx, ubx) ==
  AsSeq([k \in 1..Len(x0) |->
     IF seed = 0 THEN Max(lbx[k], Min(ubx[k], x0[k]))
     ELSE lbx[k] + ((37 * Gen(seed, k))
                     % (Min(ubx[k], lbx[k] + 400) - lbx[k] + 1))])

\* a solve may end with success only at a point whose collocation defects
\* are zero
SolverMayEnd(st, x) ==
  st = "Solve_Succeeded" =>
    \A k \in 1..Len(g) : g[k].op = "colloc" => Defect20(g[k], x) = 0

\* ------------------------------------------------------------------ Init
\* StaticObjectOpt.__init__
Init ==
  /\ nGrid \in GridSizes
  /\ dt \in DtSet
  /\ \E v \in {dec_vars} :
       \E c \in {get_constraints(v.t, v.s_flat, v.a)} :
         /\ z = decvar_pack(v.t, v.s_flat, v.a)
         /\ g = c.g /\ lbg = c.lbg /\ ubg = c.ubg
         /\ \E f \in {cost_func(v.t, v.s_flat, v.a)} :
            \E pv \in {[k \in 1..(3 * fnum) |-> Sym("ft", k - 1, 0)]
                        \o [k \in 1..7 |-> Sym("o", k - 1, 0)]} :
              /\ cost = f
              /\ p = pv
              /\ solver = [x |-> decvar_pack(v.t, v.s_flat, v.a), f |-> f,
                           g |-> c.g, p |-> pv]
  /\ z0 = <<>> /\ z_lb = <<>> /\ z_ub = <<>>
  /\ status = "none"
  /\ solved = FALSE
  /\ z_soln = <<>>
  /\ t_soln = <<>> /\ s_soln = <<>> /\ a_soln = <<>>
  /\ q_soln = <<>> /\ dq_soln = <<>>
  /\ ft_pos_soln = <<>> /\ ft_vel_soln = <<>>
  /\ req = [op |-> "none"]
  /\ ret = [op |-> "none"]
  /\ NoEnv

\* --------------------------------------------------------------- actions
\* StaticObjectOpt.solve_nlp(ft_goal, q0, obj_pose): the inputs of the call
\* are ft_goal, q0 and obj_pose; st and seed choose what the solver returns
SolveNlp ==
  \E q0 \in Q0Set :
  \E guess \in {get_initial_guess(z, q0)} :
  \E pc \in {path_constraints(z, q0, Fill(9, 0), Fill(9, 0))} :
  \E seed \in Seeds :
  \E x \in {SolverPoint(seed, guess, pc.lb, pc.ub)} :
  \E u \in {decvar_unpack(x)} :
  \E su \in {s_unpack(u.s)} :
  \E ft_pos \in {AsSeq([t_i \in 1..nGrid |->
              Bind(FK(su.q[t_i]), LAMBDA ft_pos_list :
                AsSeq([c \in 1..(fnum * 3) |->
                   LET f_i == (c - 1) \div qnum
                   IN  ft_pos_list[f_i + 1][(c - 1) - f_i * qnum + 1]]))])} :
  \E ft_vel \in {AsSeq([t_i \in 1..nGrid |->
                   [op |-> "J_dq", q |-> su.q[t_i], dq |-> su.dq[t_i]]])} :
  \E st \in {sx \in Statuses : SolverMayEnd(sx, x)} :
  \E ft_goal \in GoalSet, obj_pose \in PoseSet :
      /\ z0' = guess
      /\ z_lb' = pc.lb
      /\ z_ub' = pc.ub
      /\ status' = st
      /\ z_soln' = x
      /\ cost' = [kind |-> "DM", slack_penalty |-> W_SLACK * SumSeq(u.a)]
      /\ t_soln' = u.t
      /\ s_soln' = u.s
      /\ a_soln' = u.a
      /\ q_soln' = su.q
      /\ dq_soln' = su.dq
      /\ ft_pos_soln' = ft_pos
      /\ ft_vel_soln' = ft_vel
      /\ solved' = TRUE
      /\ req' = [op |-> "solve_nlp", ft_goal |-> ft_goal, q0 |-> q0,
                 p_val |-> ft_goal \o obj_pose.position
                           \o obj_pose.orientation,
                 returned |-> "None"]
      /\ UNCHANGED <<env_vars, nGrid, dt, z, g, lbg, ubg, p, solver, ret>>

\* a direct call decvar_unpack(decvar_pack(t, s, a)) on blocks of the
\* configured lengths
CallDecvarRoundTrip(seed) ==
  \E t \in {GenVec(seed, nGrid)} :
  \E s \in {GenVec(seed + 1, 2 * nGrid * fnum * qnum)} :
  \E a \in {GenVec(seed + 2, 3 * fnum)} :
  \E packed \in {decvar_pack(t, s, a)} :
      /\ ret' = [op |-> "decvar_roundtrip", t |-> t, s |-> s, a |-> a,
                 packed |-> packed, out |-> decvar_unpack(packed)]
      /\ UNCHANGED <<env_vars, nGrid, dt, z, g, lbg, ubg, cost, p, solver, z0, z_lb, z_ub,
                     status,
                     solved, z_soln, t_soln, s_soln, a_soln, q_soln,
                     dq_soln,
                     ft_pos_soln, ft_vel_soln, req>>

\* a direct call s_unpack(s_pack(q, dq)) on nGrid x (fnum*qnum) matrices
CallStateRoundTrip(seed) ==
  \E q \in {GenMat(seed, nGrid, dim)} :
  \E dq \in {GenMat(seed + 1, nGrid, dim)} :
  \E packed \in {s_pack(q, dq)} :
      /\ ret' = [op |-> "s_roundtrip", q |-> q, dq |-> dq,
                 packed |-> packed, out |-> s_unpack(packed)]
      /\ UNCHANGED <<env_vars, nGrid, dt, z, g, lbg, ubg, cost, p, solver, z0, z_lb, z_ub,
                     status,
                     solved, z_soln, t_soln, s_soln, a_soln, q_soln,
                     dq_soln,
                     ft_pos_soln, ft_vel_soln, req>>

\* a direct call path_constraints(self.z, q0, dq0, dq_end)
CallPathConstraints(q0, dq0, dq_end) ==
  \E pc \in {path_constraints(z, q0, dq0, dq_end)} :
      /\ ret' = [op |-> "path_constraints", q0 |-> q0, dq0 |-> dq0,
                 dq_end |-> dq_end, lb |-> pc.lb, ub |-> pc.ub]
      /\ UNCHANGED <<env_vars, nGrid, dt, z, g, lbg, ubg, cost, p, solver, z0, z_lb, z_ub,
                     status,
                     solved, z_soln, t_soln, s_soln, a_soln, q_soln,
                     dq_soln,
                     ft_pos_soln, ft_vel_soln, req>>

\* a direct call get_initial_guess(self.z, q0)
CallInitialGuess(q0) ==
  \E out \in {get_initial_guess(z, q0)} :
      /\ ret' = [op |-> "get_initial_guess", q0 |-> q0, out |-> out]
      /\ UNCHANGED <<env_vars, nGrid, dt, z, g, lbg, ubg, cost, p, solver, z0, z_lb, z_ub,
                     status,
                     solved, z_soln, t_soln, s_soln, a_soln, q_soln,
                     dq_soln,
                     ft_pos_soln, ft_vel_soln, req>>

\* a direct call decvar_unpack(v) on a numeric vector whose length differs
\* by delta from nGrid + 2*nGrid*fnum*qnum + 3*fnum
CallDecvarUnpack(kind, delta, seed) ==
  \E arg \in {GenVec(seed, nGrid + 2 * nGrid * fnum * qnum + 3 * fnum
                           + delta)} :
      /\ ret' = [op |-> "decvar_unpack", kind |-> kind, arg |-> arg,
                 expected |-> Len(arg) - delta,
                 out |-> IF kind = "DM" THEN decvar_unpack_casadi(arg)
                         ELSE decvar_unpack(arg)]
      /\ UNCHANGED <<env_vars, nGrid, dt, z, g, lbg, ubg, cost, p, solver, z0, z_lb, z_ub,
                     status,
                     solved, z_soln, t_soln, s_soln, a_soln, q_soln,
                     dq_soln,
                     ft_pos_soln, ft_vel_soln, req>>

\* a direct call s_unpack(v) on a numeric vector whose length differs by
\* delta from 2*nGrid*fnum*qnum
CallSUnpack(delta, seed) ==
  \E arg \in {GenVec(seed, 2 * nGrid * fnum * qnum + delta)} :
      /\ ret' = [op |-> "s_unpack", arg |-> arg,
                 expected |-> Len(arg) - delta,
                 out |-> s_unpack(arg)]
      /\ UNCHANGED <<env_vars, nGrid, dt, z, g, lbg, ubg, cost, p, solver, z0, z_lb, z_ub,
                     status,
                     solved, z_soln, t_soln, s_soln, a_soln, q_soln,
                     dq_soln,
                     ft_pos_soln, ft_vel_soln, req>>

\* a direct call get_jacobian(q_cur) next to FK(q_cur): entry (r, c) of the
\* Jacobian and row r of the fingertip positions, as closed forms in q_cur
CallJacobian(r, c) ==
      /\ ret = [op |-> "args", r |-> r, c |-> c]
      /\ ret' = [op |-> "get_jacobian", r |-> r, c |-> c,
                 J |-> get_jacobian(r, c), ft |-> FK_wf(r)]
      /\ UNCHANGED <<env_vars, nGrid, dt, z, g, lbg, ubg, cost, p, solver, z0, z_lb, z_ub,
                     status,
                     solved, z_soln, t_soln, s_soln, a_soln, q_soln,
                     dq_soln,
                     ft_pos_soln, ft_vel_soln, req>>

\* the solve cycle of one StaticObjectOpt
Next == SolveNlp

Spec == Init /\ [][Next]_vars

\* ------------------------------------------------- construction as a step
\* no problem is built: the attributes of StaticObjectOpt are not set
NoProblem ==
  /\ nGrid = 0 /\ dt = 0
  /\ z = <<>> /\ g = <<>> /\ lbg = <<>> /\ ubg = <<>>
  /\ cost = [kind |-> "none"] /\ p = <<>> /\ solver = [kind |-> "none"]
  /\ z0 = <<>> /\ z_lb = <<>> /\ z_ub = <<>>
  /\ status = "none"
  /\ solved = FALSE
  /\ z_soln = <<>>
  /\ t_soln = <<>> /\ s_soln = <<>> /\ a_soln = <<>>
  /\ q_soln = <<>> /\ dq_soln = <<>>
  /\ ft_pos_soln = <<>> /\ ft_vel_soln = <<>>
  /\ req = [op |-> "none"]

\* the state before StaticObjectOpt(...) is called
Blank == NoProblem /\ NoEnv /\ ret = [op |-> "none"]

\* StaticObjectOpt.__init__(nGrid, dt, obj_shape): the call that builds the
\* problem; every configuration the constructor takes is drawn here
Construct ==
  /\ nGrid = 0
  /\ nGrid' \in GridSizes
  /\ dt' \in DtSet
  /\ \E v \in {dec_vars'} :
       \E c \in {get_constraints(v.t, v.s_flat, v.a)'} :
         /\ z' = decvar_pack(v.t, v.s_flat, v.a)
         /\ g' = c.g /\ lbg' = c.lbg /\ ubg' = c.ubg
         /\ \E f \in {cost_func(v.t, v.s_flat, v.a)'} :
            \E pv \in {[k \in 1..(3 * fnum) |-> Sym("ft", k - 1, 0)]
                        \o [k \in 1..7 |-> Sym("o", k - 1, 0)]} :
              /\ cost' = f
              /\ p' = pv
              /\ solver' = [x |-> decvar_pack(v.t, v.s_flat, v.a), f |-> f,
                            g |-> c.g, p |-> pv]
  /\ UNCHANGED <<env_vars, z0, z_lb, z_ub, status, solved, z_soln, t_soln,
                 s_soln,
                 a_soln, q_soln, dq_soln, ft_pos_soln, ft_vel_soln, req, ret>>

NextConfig ==
  \/ Construct
  \/ (nGrid > 0 /\ SolveNlp)

SpecConfig == Blank /\ [][NextConfig]_vars

\* direct calls of the methods of the system of a constructed problem; they
\* read nGrid, dt and z only and leave the problem as it is
NextCalls ==
  \/ \E seed \in Seeds : CallDecvarRoundTrip(seed)
  \/ \E seed \in Seeds : CallStateRoundTrip(seed)
  \/ \E q0 \in Q0Set, dq0 \in DqRowSet, dq_end \in DqRowSet :
       CallPathConstraints(q0, dq0, dq_end)
  \/ \E q0 \in Q0Set : CallInitialGuess(q0)
  \/ \E kind \in Containers, delta \in LenDeltas, seed \in Seeds :
       CallDecvarUnpack(kind, delta, seed)
  \/ \E delta \in LenDeltas, seed \in Seeds : CallSUnpack(delta, seed)

SpecCalls == Init /\ [][NextCalls]_vars

\* the kinematics of StaticObjectSystem on their own: FK and get_jacobian
\* read the joint angles and the base angles only.  The row r and the column
\* c of the entry looked at are drawn at the start.
InitKin ==
  /\ NoProblem
  /\ NoEnv
  /\ ret \in {[op |-> "args", r |-> r, c |-> c] :
                r \in 0..(3 * fnum - 1), c \in 0..(fnum * qnum - 1)}

NextKin ==
  \E r \in 0..(3 * fnum - 1), c \in 0..(fnum * qnum - 1) : CallJacobian(r, c)

SpecKin == InitKin /\ [][NextKin]_vars

\* ------------------------------------------------------------ environment
\* PushCubeEnv and ResidualPolicyWrapper of custom_env.py: the step counter
\* of an episode.  The platform, the observations and the reward are
\* collaborators of the step; only their part in the control flow is kept.
MaxEpisode == 8        \* largest move_cube.episode_length drawn
MaxFrameskip == 4      \* largest frameskip drawn
MaxOverrun == 2        \* step calls followed after the end of an episode

EnvClasses == {"PushCubeEnv", "ResidualPolicyWrapper"}

\* messages of the errors step raises
NotReset == "Call reset() before starting to step."
NotInSpace == "Given action is not contained in the action space."
Exceeded == "Exceeded number of steps for one episode."

num_steps_unclamped(sc, fs) == fs

\* num_steps of step: frameskip, cut so that the episode length is not
\* exceeded, and at least 1
num_steps(sc, fs) ==
  LET step_count_after == sc + fs
  IN  IF step_count_after > episode_length
      THEN LET excess == step_count_after - episode_length
           IN  Max(1, fs - excess)
      ELSE fs

\* for _ in range(num_steps): self.step_count += 1, raise when the episode
\* length is exceeded; the counter keeps the increment when the call raises
RECURSIVE step_loop(_, _)
step_loop(sc, n) ==
  IF n <= 0
  THEN [step_count |-> sc, error |-> "none"]
  ELSE IF sc + 1 > episode_length
       THEN [step_count |-> sc + 1, error |-> Exceeded]
       ELSE step_loop(sc + 1, n - 1)

\* step(action) / _step(action) on an environment whose platform is pl, whose
\* counter is sc and whose frameskip is fs; in_space is
\* self.action_space.contains(action).  The result holds the counter after
\* the call, the error raised ("none": the call returned) and is_done.
step(pl, sc, fs, in_space) ==
  IF pl = "None"
  THEN [step_count |-> sc, error |-> NotReset, is_done |-> FALSE]
  ELSE IF ~in_space
  THEN [step_count |-> sc, error |-> NotInSpace, is_done |-> FALSE]
  ELSE Bind(step_loop(sc, num_steps(sc, fs)), LAMBDA r :
         [step_count |-> r.step_count,
          error |-> r.error,
          is_done |-> (r.error = "none" /\ r.step_count = episode_length)])

\* the environment after __init__: frameskip < 1 is refused by the
\* constructor, the platform and the counter are set by reset()
InitEnv ==
  /\ NoProblem
  /\ ret = [op |-> "none"]
  /\ env_class \in EnvClasses
  /\ platform = "None"
  /\ frameskip \in 1..MaxFrameskip
  /\ step_count = Unset
  /\ episode_length \in 1..MaxEpisode

\* reset(): PushCubeEnv creates the platform, sets the counter to 0 and makes
\* one step with the initial action, whose is_done it drops;
\* ResidualPolicyWrapper resets the wrapped environment and sets its own
\* counter to 0
Reset ==
  /\ env_class \in EnvClasses
  /\ platform' = "TriFingerPlatform"
  /\ IF env_class = "PushCubeEnv"
     THEN \E r \in {step("TriFingerPlatform", 0, frameskip, TRUE)} :
            /\ step_count' = r.step_count
            /\ ret' = [op |-> "reset", stepped |-> TRUE, start |-> 0,
                       frameskip |-> frameskip, error |-> r.error,
                       is_done |-> r.is_done]
     ELSE /\ step_count' = 0
          /\ ret' = [op |-> "reset", stepped |-> FALSE, start |-> 0,
                     frameskip |-> frameskip, error |-> "none",
                     is_done |-> FALSE]
  /\ UNCHANGED <<env_class, frameskip, episode_length>>
  /\ UNCHANGED <<nGrid, dt, z, g, lbg, ubg, cost, p, solver, z0, z_lb, z_ub,
                 status, solved, z_soln, t_soln, s_soln, a_soln, q_soln,
                 dq_soln, ft_pos_soln, ft_vel_soln, req>>

\* step(action): one call, the action inside the action space or not
Step(in_space) ==
  /\ env_class \in EnvClasses
  /\ platform = "None" \/ step_count < episode_length + MaxOverrun
  /\ \E r \in {step(platform, step_count, frameskip, in_space)} :
       /\ step_count' = r.step_count
       /\ ret' = [op |-> "step", stepped |-> TRUE, start |-> step_count,
                  frameskip |-> frameskip, error |-> r.error,
                  is_done |-> r.is_done]
  /\ UNCHANGED <<env_class, platform, frameskip, episode_length>>
  /\ UNCHANGED <<nGrid, dt, z, g, lbg, ubg, cost, p, solver, z0, z_lb, z_ub,
                 status, solved, z_soln, t_soln, s_soln, a_soln, q_soln,
                 dq_soln, ft_pos_soln, ft_vel_soln, req>>

\* the frameskip property of ResidualPolicyWrapper follows the mode of the
\* policy: policy.rl_frameskip in mode RL_PUSH, 1 otherwise
SetPolicyMode(fs) ==
  /\ env_class = "ResidualPolicyWrapper"
  /\ frameskip' = fs
  /\ UNCHANGED <<env_class, platform, step_count, episode_length, ret>>
  /\ UNCHANGED <<nGrid, dt, z, g, lbg, ubg, cost, p, solver, z0, z_lb, z_ub,
                 status, solved, z_soln, t_soln, s_soln, a_soln, q_soln,
                 dq_soln, ft_pos_soln, ft_vel_soln, req>>

\* any use of the environment
NextEnv ==
  \/ Reset
  \/ \E in_space \in BOOLEAN : Step(in_space)
  \/ \E fs \in 1..MaxFrameskip : SetPolicyMode(fs)

SpecEnv == InitEnv /\ [][NextEnv]_vars

\* one episode: reset() once, then step after step.  The caller goes on
\* calling reset() and then step with actions of the action space.
FirstReset == platform = "None" /\ Reset

NextEpisode ==
  \/ FirstReset
  \/ \E in_space \in BOOLEAN : Step(in_space)
  \/ \E fs \in 1..MaxFrameskip : SetPolicyMode(fs)

SpecEpisode ==
  /\ InitEnv
  /\ [][NextEpisode]_vars
  /\ WF_vars(FirstReset)
  /\ WF_vars(Step(TRUE))

\* ================================================================ claims
SolutionAttrs == <<t_soln, s_soln, a_soln, q_soln, dq_soln, ft_pos_soln,
                   ft_vel_soln, cost>>

\* C1: a solve that the solver ends with a status other than success hands
\* that status to the caller and produces no decoded solution: t_soln,
\* q_soln, dq_soln, a_soln, ft_pos_soln, ft_vel_soln and cost are not set
\* from it.
C1_FailedSolveNotDecoded ==
  [][status' # "Solve_Succeeded" =>
       /\ req'.returned = status'
       /\ SolutionAttrs' = SolutionAttrs]_vars

\* C2: decvar_unpack(decvar_pack(t, s, a)) = (t, s, a) for blocks of
\* lengths nGrid, 2*nGrid*fnum*qnum and 3*fnum.
C2_DecvarRoundTrip ==
  ret.op = "decvar_roundtrip" =>
    /\ ret.out.t = ret.t
    /\ ret.out.s = ret.s
    /\ ret.out.a = ret.a

C2_Witness ==
  /\ ret.op = "decvar_roundtrip"
  /\ nGrid > ARENA_START
  /\ Len(ret.t) = nGrid
  /\ Len(ret.s) = 2 * nGrid * fnum * qnum
  /\ Len(ret.a) = 3 * fnum
  /\ ret.t # ret.a

\* C3: s_unpack(s_pack(q, dq)) = (q, dq) for nGrid x (fnum*qnum) matrices:
\* every entry comes back at its row and column.
C3_StateRoundTrip ==
  ret.op = "s_roundtrip" =>
    /\ NRows(ret.out.q) = nGrid /\ NRows(ret.out.dq) = nGrid
    /\ \A i \in 1..nGrid :
         /\ Len(ret.out.q[i]) = dim /\ Len(ret.out.dq[i]) = dim
         /\ \A j \in 1..dim :
              /\ ret.out.q[i][j] = ret.q[i][j]
              /\ ret.out.dq[i][j] = ret.dq[i][j]

C3_Witness ==
  /\ ret.op = "s_roundtrip"
  /\ nGrid > ARENA_START
  /\ NRows(ret.q) = nGrid /\ NCols(ret.q) = dim
  /\ ret.q[1][2] # ret.q[2][1]
  /\ ret.q # ret.dq

\* ------------------------------------------- layout named by the claims
\* length of a decision vector and the 1-based offsets of its entries
ZLen == nGrid + 2 * nGrid * fnum * qnum + 3 * fnum
OffT(i) == i + 1
OffQ(i, j) == nGrid + i * (fnum * qnum) + j + 1
OffDq(i, j) == nGrid + nGrid * fnum * qnum + i * (fnum * qnum) + j + 1
OffA(k) == nGrid + 2 * nGrid * fnum * qnum + k + 1

Rows == 0..(nGrid - 1)
Cols == 0..(fnum * qnum - 1)

\* v has the length and the layout: T(i), Q(i, j), DQ(i, j), A(k) give the
\* entries of the time, joint-position, joint-velocity and slack blocks
HasLayout(v, T(_), Q(_, _), DQ(_, _), A(_)) ==
  /\ Len(v) = ZLen
  /\ \A i \in Rows : v[OffT(i)] = T(i)
  /\ \A i \in Rows, j \in Cols :
       v[OffQ(i, j)] = Q(i, j) /\ v[OffDq(i, j)] = DQ(i, j)
  /\ \A k \in 0..(3 * fnum - 1) : v[OffA(k)] = A(k)

\* range of joint j (0-based, finger-major) in the per-finger tables
QRange(j) == one_finger_q_range[(j % qnum) + 1]
DqRange(j) == one_finger_dq_range[(j % qnum) + 1]

\* the fingertip coordinate d of finger f at grid index i, as an expression
ExpFK(i, f, d) ==
  [op |-> "FK", finger |-> f, axis |-> d,
   q1 |-> Sym("q", i, qnum * f), q2 |-> Sym("q", i, qnum * f + 1),
   q3 |-> Sym("q", i, qnum * f + 2)]

\* indices of the constraints equal to the expression e
Where(e) == {k \in 1..Len(g) : g[k] = e}
\* indices of the constraints of the families ops
Family(ops) == {k \in 1..Len(g) : g[k].op \in ops}

\* C4: z, z0, z_lb and z_ub have length nGrid + 2*nGrid*fnum*qnum + 3*fnum
\* with time entry i at offset i, q[i,j] at nGrid + i*(fnum*qnum) + j,
\* dq[i,j] at nGrid + nGrid*fnum*qnum + i*(fnum*qnum) + j and slack k at
\* nGrid + 2*nGrid*fnum*qnum + k.
C4_Layout ==
  /\ HasLayout(z, LAMBDA i : Sym("t", i, 0), LAMBDA i, j : Sym("q", i, j),
               LAMBDA i, j : Sym("dq", i, j), LAMBDA k : Sym("a", k, 0))
  /\ solved =>
       /\ HasLayout(z0, LAMBDA i : i * dt, LAMBDA i, j : req.q0[j + 1],
                    LAMBDA i, j : 0, LAMBDA k : 0)
       /\ HasLayout(z_lb, LAMBDA i : i * dt,
                    LAMBDA i, j : IF i = 0 THEN req.q0[j + 1]
                                  ELSE QRange(j)[1],
                    LAMBDA i, j : IF i \in {0, nGrid - 1} THEN 0
                                  ELSE DqRange(j)[1],
                    LAMBDA k : 0)
       /\ HasLayout(z_ub, LAMBDA i : i * dt,
                    LAMBDA i, j : IF i = 0 THEN req.q0[j + 1]
                                  ELSE QRange(j)[2],
                    LAMBDA i, j : IF i \in {0, nGrid - 1} THEN 0
                                  ELSE DqRange(j)[2],
                    LAMBDA k : Inf)

C4_Witness ==
  /\ solved
  /\ nGrid > ARENA_START
  /\ Len(z0) = ZLen /\ Len(z_lb) = ZLen
  /\ req.q0[1] # req.q0[2]
  /\ z_lb[OffQ(0, 1)] # z_lb[OffQ(1, 1)]

\* the collocation defect of the grid pair (i, i+1) and joint j
ExpColloc(i, j) ==
  [op |-> "colloc", tHi |-> Sym("t", i + 1, 0), tLo |-> Sym("t", i, 0),
   dqHi |-> Sym("dq", i + 1, j), dqLo |-> Sym("dq", i, j),
   qLo |-> Sym("q", i, j), qHi |-> Sym("q", i + 1, j)]

InBounds(v) == \A k \in 1..Len(v) : z_lb[k] <= v[k] /\ v[k] <= z_ub[k]

\* C5: for every grid pair (i, i+1) and joint j there is exactly one
\* collocation constraint, (nGrid-1)*fnum*qnum in all, with bounds (0, 0),
\* and at every decision vector inside the variable bounds its value is
\* 0.5*dt*(dq[i+1,j] + dq[i,j]) + q[i,j] - q[i+1,j]  (here times 20, dt in
\* 1/10 s).
C5_Collocation ==
  /\ Cardinality(Family({"colloc"})) = (nGrid - 1) * fnum * qnum
  /\ \A i \in 0..(nGrid - 2), j \in Cols :
       \E ks \in {Where(ExpColloc(i, j))} :
         /\ Cardinality(ks) = 1
         /\ \A k \in ks :
              /\ lbg[k] = 0 /\ ubg[k] = 0
              /\ (solved /\ InBounds(z_soln)) =>
                   Defect20(g[k], z_soln)
                     = dt * (dq_soln[i + 2][j + 1] + dq_soln[i + 1][j + 1])
                       + 20 * q_soln[i + 1][j + 1] - 20 * q_soln[i + 2][j + 1]

C5_Witness ==
  /\ solved
  /\ nGrid > ARENA_START
  /\ InBounds(z_soln)
  /\ dq_soln[2][1] # 0
  /\ q_soln[2][1] # q_soln[3][1]
  /\ \E k \in Family({"colloc"}) : Defect20(g[k], z_soln) # 0

\* the terminal goal constraint of finger f and axis d
ExpGoal(f, d) ==
  [op |-> "goal", slack |-> Sym("a", f * 3 + d, 0), goal |-> f * 3 + d,
   ft |-> ExpFK(nGrid - 1, f, d)]

\* the tracking term of the cost for grid index i and finger f
ExpTrack(i, f) ==
  [op |-> "track", goal |-> 3 * f,
   ft |-> <<ExpFK(i, f, 0), ExpFK(i, f, 1), ExpFK(i, f, 2)>>]

\* C6: the terminal goal constraint is emitted for the last grid index only:
\* exactly 3*fnum constraints, with bounds [0, +inf), each reading joint
\* positions of row nGrid-1 only; the tracking term of the cost has one
\* term for every grid index and every finger, nGrid*fnum in all.
C6_GoalLastTrackAll ==
  /\ Cardinality(Family({"goal"})) = 3 * fnum
  /\ \A f \in 0..(fnum - 1), d \in 0..2 :
       \E ks \in {Where(ExpGoal(f, d))} :
         /\ Cardinality(ks) = 1
         /\ \A k \in ks : lbg[k] = 0 /\ ubg[k] = Inf
  /\ \A k \in Family({"goal"}) :
       {g[k].ft.q1.i, g[k].ft.q2.i, g[k].ft.q3.i} = {nGrid - 1}
       /\ {g[k].ft.q1.n, g[k].ft.q2.n, g[k].ft.q3.n} = {"q"}
  /\ \E terms \in {solver.f.terms} :
       /\ Cardinality({k \in 1..Len(terms) : terms[k].op = "track"})
            = nGrid * fnum
       /\ \A i \in Rows, f \in 0..(fnum - 1) :
            Cardinality({k \in 1..Len(terms) : terms[k] = ExpTrack(i, f)}) = 1

C6_Witness ==
  /\ solved
  /\ nGrid > ARENA_START
  /\ Family({"goal"}) # {}
  /\ \E k \in 1..Len(solver.f.terms) : solver.f.terms[k] = ExpTrack(0, 0)

\* fingertip coordinates (mm) a joint configuration may give
FtCoords == {-460, -100, 0, 195, 460}

\* the symbols an expression of g reads
SymsOf(c) ==
  IF c.op = "colloc" THEN {c.tHi, c.tLo, c.dqHi, c.dqLo, c.qLo, c.qHi}
  ELSE IF c.op = "goal" THEN {c.slack, c.ft.q1, c.ft.q2, c.ft.q3}
  ELSE IF c.op = "arena_r"
       THEN {c.x.q1, c.x.q2, c.x.q3, c.y.q1, c.y.q2, c.y.q3}
  ELSE {c.zc.q1, c.zc.q2, c.zc.q3}

\* C7: for every fingertip goal and every fingertip position at the last
\* grid index, each terminal goal constraint holds for a value of its own
\* slack variable inside the slack bounds, the slack variables of the
\* 3*fnum constraints are distinct, and no collocation or arena constraint
\* reads a slack variable: an unreachable goal costs slack and nothing else.
C7_GoalAlwaysFeasible ==
  solved =>
    /\ \A k1, k2 \in Family({"goal"}) : g[k1].slack = g[k2].slack => k1 = k2
    /\ \A k \in Family({"goal"}), ftv \in FtCoords :
         \E need \in {(req.ft_goal[g[k].goal + 1] - ftv)
                      * (req.ft_goal[g[k].goal + 1] - ftv)} :
         \E pos \in {PosOf(g[k].slack)} :
           /\ z_lb[pos] <= need /\ need <= z_ub[pos]
           /\ \A a \in {need, need + 1} :
                \E zv \in {[z_soln EXCEPT ![pos] = a]} :
                  /\ lbg[k] <= GoalVal(g[k], zv, req.ft_goal, ftv)
                  /\ GoalVal(g[k], zv, req.ft_goal, ftv) <= ubg[k]
    /\ \A k \in Family({"colloc", "arena_r", "arena_z"}) :
         \A sy \in SymsOf(g[k]) : sy.n # "a"

C7_Witness ==
  /\ solved
  /\ nGrid > ARENA_START
  /\ req.ft_goal[1] > 460
  /\ status # "Solve_Succeeded"
  /\ \E k \in Family({"goal"}) : z_ub[PosOf(g[k].slack)] = Inf

\* the arena constraints of finger f at grid index i
ExpArenaR(i, f) ==
  [op |-> "arena_r", max_r |-> MAX_FT_R,
   x |-> ExpFK(i, f, 0), y |-> ExpFK(i, f, 1)]

ExpArenaZ(i, f) ==
  [op |-> "arena_z", zc |-> ExpFK(i, f, 2), clearance |-> GROUND_CLEARANCE]

\* C8: for every grid index from 10 to nGrid-1 and every finger there are
\* exactly two arena constraints with bounds [0, +inf), MAX_FT_R -
\* xy_radius(fingertip) and fingertip_z - 0.01, and there is no arena
\* constraint for a grid index before 10.
C8_ArenaFromCutIn ==
  /\ \A i \in ARENA_START..(nGrid - 1), f \in 0..(fnum - 1) :
       \E kr \in {Where(ExpArenaR(i, f))}, kz \in {Where(ExpArenaZ(i, f))} :
         /\ Cardinality(kr) = 1 /\ Cardinality(kz) = 1
         /\ \A k \in kr \cup kz : lbg[k] = 0 /\ ubg[k] = Inf
  /\ Cardinality(Family({"arena_r", "arena_z"}))
       = 2 * fnum * Cardinality(ARENA_START..(nGrid - 1))
  /\ \A k \in Family({"arena_r", "arena_z"}) :
       \A sy \in SymsOf(g[k]) : sy.n = "q" /\ sy.i >= ARENA_START

C8_Witness ==
  /\ solved
  /\ nGrid > ARENA_START + 1
  /\ Where(ExpArenaR(ARENA_START, 0)) # {}
  /\ Where(ExpArenaZ(nGrid - 1, fnum - 1)) # {}

\* C9: path_constraints returns z_lb <= z_ub elementwise, with z_lb = z_ub
\* on the time block and on grid index 0 of the joint-position block, which
\* is pinned to q0.
C9_BoundsOrdered ==
  ret.op = "path_constraints" =>
    /\ Len(ret.lb) = ZLen /\ Len(ret.ub) = ZLen
    /\ \A k \in 1..ZLen : ret.lb[k] <= ret.ub[k]
    /\ \A i \in Rows : ret.lb[OffT(i)] = ret.ub[OffT(i)]
    /\ \A j \in Cols :
         /\ ret.lb[OffQ(0, j)] = ret.q0[j + 1]
         /\ ret.ub[OffQ(0, j)] = ret.q0[j + 1]

C9_Witness ==
  /\ ret.op = "path_constraints"
  /\ nGrid > ARENA_START
  /\ ret.q0[2] > QRange(1)[2]
  /\ ret.dq0 = None /\ ret.dq_end # None
  /\ ret.lb[OffQ(1, 1)] < ret.ub[OffQ(1, 1)]

\* C10: path_constraints bounds the joint positions of every grid index
\* i >= 1 by the range of their joint in the per-finger table, the joint
\* velocities by the per-joint velocity range, except that index 0 is
\* pinned to dq0 exactly when dq0 is given and the last index to dq_end
\* exactly when dq_end is given, and the slack entries by [0, +inf).
C10_BoundsTable ==
  ret.op = "path_constraints" =>
    /\ \A i \in 1..(nGrid - 1), j \in Cols :
         /\ ret.lb[OffQ(i, j)] = QRange(j)[1]
         /\ ret.ub[OffQ(i, j)] = QRange(j)[2]
    /\ \A i \in Rows, j \in Cols :
         IF i = nGrid - 1 /\ ret.dq_end # None
         THEN /\ ret.lb[OffDq(i, j)] = ret.dq_end[j + 1]
              /\ ret.ub[OffDq(i, j)] = ret.dq_end[j + 1]
         ELSE IF i = 0 /\ ret.dq0 # None
         THEN /\ ret.lb[OffDq(i, j)] = ret.dq0[j + 1]
              /\ ret.ub[OffDq(i, j)] = ret.dq0[j + 1]
         ELSE /\ ret.lb[OffDq(i, j)] = DqRange(j)[1]
              /\ ret.ub[OffDq(i, j)] = DqRange(j)[2]
    /\ \A k \in 0..(3 * fnum - 1) :
         ret.lb[OffA(k)] = 0 /\ ret.ub[OffA(k)] = Inf

C10_Witness ==
  /\ ret.op = "path_constraints"
  /\ nGrid > ARENA_START
  /\ ret.dq0 # None /\ ret.dq_end = None
  /\ ret.lb[OffDq(0, 1)] = ret.dq0[2]
  /\ ret.lb[OffDq(nGrid - 1, 1)] = DqRange(1)[1]
  /\ ret.dq0[2] # DqRange(1)[1]

InJointRange(q0) ==
  \A j \in Cols : QRange(j)[1] <= q0[j + 1] /\ q0[j + 1] <= QRange(j)[2]

\* v lies inside the variable bounds of the last solve
WithinBounds(v) ==
  /\ Len(v) = Len(z_lb) /\ Len(v) = Len(z_ub)
  /\ \A k \in 1..Len(v) : z_lb[k] <= v[k] /\ v[k] <= z_ub[k]

\* C12 as claimed: for every solve request with q0 inside the joint-range
\* table and any fingertip goal, z0 lies inside [z_lb, z_ub] and every
\* constraint evaluated at z0 lies inside its [lbg, ubg].  The terminal goal
\* constraint k has the value z0[slack k] - (ft_goal[k] - FK(q0)[k])^2 with
\* z0[slack k] = 0, which is inside [0, +inf) only when ft_goal[k] equals
\* FK(q0)[k]; FK(q0) is the same in two solves with the same q0, so the
\* claim requires two such solves to have the same goal.
C12_StartFeasible ==
  [][InJointRange(req'.q0) =>
       /\ WithinBounds(z0)'
       /\ \A k \in Family({"colloc"}) :
            lbg[k] <= Defect20(g[k], z0') /\ Defect20(g[k], z0') <= ubg[k]
       /\ (req.op = "solve_nlp" /\ req.q0 = req'.q0) =>
            \A k \in Family({"goal"}) :
               ValOf(g[k].slack, z0') = 0 =>
                 req.ft_goal[g[k].goal + 1] = req'.ft_goal[g[k].goal + 1]]_vars

\* C12 (amended): for every solve request with q0 inside the joint-range
\* table, z0 lies inside [z_lb, z_ub] and every collocation constraint
\* evaluated at z0 is zero, inside its bounds (0, 0); every terminal goal
\* constraint has slack 0 at z0, so its value there is
\* -(ft_goal[k] - fingertip[k])^2, never above zero.
C12_StartInBoundsAndCollocated ==
  (solved /\ InJointRange(req.q0)) =>
    /\ WithinBounds(z0)
    /\ \A k \in Family({"colloc"}) :
         /\ Defect20(g[k], z0) = 0
         /\ lbg[k] = 0 /\ ubg[k] = 0
    /\ \A k \in Family({"goal"}) :
         /\ ValOf(g[k].slack, z0) = 0
         /\ \A ftv \in FtCoords : GoalVal(g[k], z0, req.ft_goal, ftv) <= 0

C12_Witness ==
  /\ solved
  /\ nGrid > ARENA_START
  /\ InJointRange(req.q0)
  /\ req.q0[2] # 0
  /\ req.ft_goal[1] > 460
  /\ \E k \in Family({"goal"}), ftv \in FtCoords :
       GoalVal(g[k], z0, req.ft_goal, ftv) < lbg[k]

\* C13: decvar_unpack and s_unpack end with a structural error on every
\* argument whose length differs from the expected one; they never return
\* blocks that are shortened or lengthened.
C13_WrongLengthFails ==
  (ret.op \in {"decvar_unpack", "s_unpack"} /\ Len(ret.arg) # ret.expected)
    => ret.out = StructuralError

\* C14: g, lbg and ubg have the same length, (nGrid-1)*fnum*qnum collocation
\* defects, 3*fnum goal constraints and the arena constraints, and are
\* aligned by index: lbg[k], ubg[k] are (0, 0) where g[k] is a collocation
\* defect and (0, +inf) where it is a terminal goal or an arena constraint,
\* and lbg[k] <= ubg[k] for every k.
C14_BoundsAligned ==
  /\ Len(lbg) = Len(g) /\ Len(ubg) = Len(g)
  /\ Len(g) = (nGrid - 1) * fnum * qnum + 3 * fnum
              + 2 * fnum * Cardinality(ARENA_START..(nGrid - 1))
  /\ \A k \in 1..Len(g) :
       /\ g[k].op \in {"colloc", "goal", "arena_r", "arena_z"}
       /\ g[k].op = "colloc" => (lbg[k] = 0 /\ ubg[k] = 0)
       /\ g[k].op \in {"goal", "arena_r", "arena_z"}
            => (lbg[k] = 0 /\ ubg[k] = Inf)
       /\ lbg[k] <= ubg[k]
  /\ solver.g = g

C14_Witness ==
  /\ solved
  /\ nGrid > ARENA_START
  /\ Family({"colloc"}) # {} /\ Family({"goal"}) # {}
  /\ Family({"arena_r"}) # {}
  /\ \E k \in 2..Len(g) : ubg[k - 1] = 0 /\ ubg[k] = Inf

\* the problem structure of the instance
ProblemStructure == <<z, cost, g, lbg, ubg, p, solver>>

\* C15: a solve leaves the problem structure unchanged: z, the symbolic cost
\* expression, g, lbg, ubg, p and the solver stay the ones built at
\* construction, and the starting point, the bounds and the parameter
\* values of the solve are computed from the inputs of that solve only.
C15_SolveKeepsProblem ==
  [][/\ ProblemStructure' = ProblemStructure
     /\ cost' = solver'.f
     /\ z0' = get_initial_guess(solver.x, req'.q0)
     /\ Len(req'.p_val) = Len(p)
     /\ SubSeq(req'.p_val, 1, 3 * fnum) = req'.ft_goal]_vars

\* C16 as claimed: boundary joint velocities are optional in a solve
\* request, and a request that does not supply them leaves the
\* joint-velocity rows at grid index 0 and at the last grid index bounded by
\* the per-joint velocity range only.  solve_nlp(ft_goal, q0, obj_pose,
\* npz_filepath) takes no boundary velocities, so no request supplies them.
C16_BoundaryVelocitiesOptional ==
  solved =>
    \A i \in {0, nGrid - 1}, j \in Cols :
      /\ z_lb[OffDq(i, j)] = DqRange(j)[1]
      /\ z_ub[OffDq(i, j)] = DqRange(j)[2]

\* C16 (amended): a solve request carries no boundary joint velocities:
\* every solve pins the joint-velocity rows at grid index 0 and at the last
\* grid index to zero, bounds the rows between them by the per-joint
\* velocity range, and the point the solver returns has zero joint
\* velocities at both ends.
C16_BoundaryVelocitiesZero ==
  solved =>
    /\ \A i \in Rows, j \in Cols :
         IF i \in {0, nGrid - 1}
         THEN z_lb[OffDq(i, j)] = 0 /\ z_ub[OffDq(i, j)] = 0
         ELSE /\ z_lb[OffDq(i, j)] = DqRange(j)[1]
              /\ z_ub[OffDq(i, j)] = DqRange(j)[2]
    /\ dq_soln[1] = Fill(fnum * qnum, 0)
    /\ dq_soln[nGrid] = Fill(fnum * qnum, 0)
    /\ DOMAIN req = {"op", "ft_goal", "q0", "p_val", "returned"}

C16_Witness ==
  /\ solved
  /\ nGrid > ARENA_START
  /\ z_lb[OffDq(0, 1)] = 0 /\ z_ub[OffDq(nGrid - 1, 1)] = 0
  /\ z_lb[OffDq(1, 1)] = DqRange(1)[1]
  /\ DqRange(1)[1] < 0
  /\ \E i \in 2..(nGrid - 1) : dq_soln[i] # Fill(fnum * qnum, 0)

\* g holds a collision constraint for every grid index, finger and link
CollisionIncluded ==
  \A i \in Rows, f \in 0..(fnum - 1), l \in CollisionLinks :
    \E k \in 1..Len(g) :
      g[k].op = "collision" /\ g[k].t_i = i /\ g[k].f_i = f /\ g[k].l_i = l

\* g holds no collision constraint
CollisionAbsent == \A k \in 1..Len(g) : g[k].op # "collision"

\* C17: the collision constraint family is switched by configuration: some
\* configuration the constructor accepts builds a problem whose g holds the
\* collision constraint of every grid index, finger and selected link, and
\* some configuration (the default) builds one whose g holds none.
C17_CollisionConfigurable ==
  nGrid = 0 =>
    /\ ENABLED (Construct /\ CollisionAbsent')
    /\ ENABLED (Construct /\ CollisionIncluded')

\* the parameter symbols of the object pose
PoseSyms == {Sym("o", k, 0) : k \in 0..6}

\* the object pose parameters an expression of g or a term of the cost reads
PoseRead(e) ==
  IF "pose" \in DOMAIN e THEN {e.pose[k] : k \in 1..Len(e.pose)} ELSE {}

\* C18: the object pose has no influence on the problem: no constraint
\* expression and no term of the cost the solver holds reads an object pose
\* parameter, so their values at any decision vector are the same for any
\* two poses, and two solves with the same ft_goal and q0 that differ in
\* obj_pose give the solver the same starting point, the same variable
\* bounds and the same constraint bounds.
C18_PoseHasNoInfluence ==
  [][/\ \A k \in 1..Len(solver.g) :
          /\ PoseRead(solver.g[k]) = {}
          /\ SymsOf(solver.g[k]) \cap PoseSyms = {}
     /\ \A k \in 1..Len(solver.f.terms) : PoseRead(solver.f.terms[k]) = {}
     /\ PoseSyms \subseteq {solver.p[k] : k \in 1..Len(solver.p)}
     /\ (req.op = "solve_nlp" /\ req'.ft_goal = req.ft_goal
         /\ req'.q0 = req.q0) =>
          <<z0, z_lb, z_ub, lbg, ubg>>' = <<z0, z_lb, z_ub, lbg, ubg>>]_vars

C18_Witness ==
  /\ solved
  /\ nGrid > ARENA_START
  /\ SubSeq(req.p_val, 3 * fnum + 1, 3 * fnum + 7)
       # <<0, 0, 0, 0, 0, 0, 1>>
  /\ Len(req.p_val) = Len(solver.p)
  /\ PoseSyms \subseteq {solver.p[k] : k \in 1..Len(solver.p)}

\* the partial derivative of the polynomial P by the angle of joint j:
\* d sin(q_j) = cos(q_j), d cos(q_j) = -sin(q_j)
RECURSIVE PDeriv(_, _)
PDeriv(P, j) ==
  IF P = {} THEN PZero
  ELSE LET t  == CHOOSE x \in P : TRUE
           vs == 2 * j + 1
           vc == 2 * j + 2
           m  == t[1]
           A  == IF m[vs] > 0
                 THEN {<<AsSeq([m EXCEPT ![vs] = @ - 1, ![vc] = @ + 1]),
                         t[2] * m[vs]>>}
                 ELSE {}
           B  == IF m[vc] > 0
                 THEN {<<AsSeq([m EXCEPT ![vc] = @ - 1, ![vs] = @ + 1]),
                         (0 - t[2]) * m[vc]>>}
                 ELSE {}
       IN  PAdd(PAdd(A, B), PDeriv(P \ {t}, j))

\* C19: for every joint configuration, entry (r, c) of get_jacobian is the
\* partial derivative of row r of the fingertip positions of FK by joint
\* angle c (an identity of the closed forms, so a finite-difference gradient
\* of FK agrees with it up to its truncation error), and every entry outside
\* the three diagonal 3 x 3 blocks is zero.
C19_JacobianIsDerivative ==
  ret.op = "get_jacobian" =>
    /\ ret.J = PDeriv(ret.ft, ret.c)
    /\ (ret.r \div 3 # ret.c \div qnum) => ret.J = PZero

C19_Witness ==
  /\ ret.op = "get_jacobian"
  /\ ret.r = 4 /\ ret.c = 5
  /\ ret.J # PZero
  /\ ret.J = PDeriv(ret.ft, ret.c)

\* a step call has returned is_done = True (the step reset() makes counts)
DoneReturned ==
  /\ ret.op \in {"step", "reset"}
  /\ ret.stepped
  /\ ret.error = "none"
  /\ ret.is_done

\* a step call that starts inside the episode on an environment that was
\* reset
StepInsideEpisode(in_space) ==
  /\ Step(in_space)
  /\ platform # "None"
  /\ frameskip >= 1
  /\ step_count < episode_length

StepAtFullLength ==
  /\ Step(TRUE)
  /\ platform # "None"
  /\ step_count = episode_length

\* the step call at full length raises the RuntimeError of an exceeded
\* episode
C21_FullLengthStepRaises ==
  [][StepAtFullLength => ret'.error = Exceeded]_vars

\* C21: in every state reached by reset and step calls step_count is at most
\* episode_length: a step call made when the episode is at its full length
\* raises RuntimeError and leaves step_count unchanged.
C21_CountNeverExceeds ==
  /\ [](platform # "None" => step_count <= episode_length)
  /\ [][StepAtFullLength =>
          /\ ret'.error = Exceeded
          /\ step_count' = step_count]_vars

\* the state after the step call at full length: the call has raised and
\* the counter is past the episode length
C21_CountExceeded ==
  /\ ret.op = "step"
  /\ ret.start = episode_length
  /\ ret.error = Exceeded
  /\ step_count = episode_length + 1

\* constraint k of g holds at a point where the fingertip it reads is at
\* (xv, yv, zv) (mm): lbg <= MAX_FT_R - norm_2(x, y) <= ubg, with lbg = 0
\* and ubg = +inf, and lbg <= z - 0.01 <= ubg
ArenaHolds(k, xv, yv, zv) ==
  IF g[k].op = "arena_r"
  THEN /\ lbg[k] = 0 /\ ubg[k] = Inf
       /\ xv * xv + yv * yv <= g[k].max_r * g[k].max_r
  ELSE /\ lbg[k] <= zv - g[k].clearance
       /\ zv - g[k].clearance <= ubg[k]

\* the arena constraints of g that read the fingertip of finger f at the
\* last grid index
ArenaAtEnd(f) ==
  Where(ExpArenaR(nGrid - 1, f)) \cup Where(ExpArenaZ(nGrid - 1, f))

\* the last grid index is under the arena and ground constraints of every
\* finger, and a final fingertip position that the constraints of g allow is
\* inside the disk of radius MAX_FT_R and above the ground clearance
EndInArena ==
  \A f \in 0..(fnum - 1) :
    /\ Where(ExpArenaR(nGrid - 1, f)) # {}
    /\ Where(ExpArenaZ(nGrid - 1, f)) # {}
    /\ \A xv, yv, zv \in FtCoords :
         (\A k \in ArenaAtEnd(f) : ArenaHolds(k, xv, yv, zv)) =>
           /\ xv * xv + yv * yv <= MAX_FT_R * MAX_FT_R
           /\ zv >= GROUND_CLEARANCE

\* the same for the grids that reach past the first grid index of
\* arena_constraint
C22_EndInArenaPastCutIn ==
  nGrid > ARENA_START => EndInArena

\* C22: for every grid size nGrid >= 2 the last grid index is under the
\* arena and ground constraints of every finger, so in every feasible
\* trajectory the final fingertip positions are inside the horizontal disk
\* of radius MAX_FT_R and above the ground clearance.
C22_FinalInArena ==
  nGrid >= 2 => EndInArena

\* a problem on a short grid: g holds no arena constraint at all
C22_NoArenaOnShortGrid ==
  /\ nGrid \in 2..ARENA_START
  /\ Family({"arena_r", "arena_z"}) = {}
  /\ Family({"goal"}) # {}

====
